---- MODULE Spec2Model ----
(***************************************************************************)
(* Model of src/TrafficSignal.c: a one-shot traffic-light sequence driven  *)
(* through the memory-mapped GPIO registers of a Raspberry Pi 2.           *)
(*                                                                         *)
(* The program is single-threaded and straight-line.  pc holds the source  *)
(* line of the statement about to be executed; there is one action per     *)
(* statement (named L<line>).  A 32-bit register word is modelled as the   *)
(* set of its bit positions that are 1, so & is \cap and | is \cup.        *)
(* Time is the sum of the arguments of the sleeps executed, in             *)
(* microseconds; register accesses and prints take no time.                *)
(***************************************************************************)
EXTENDS Integers, Sequences, FiniteSets

(***************************************************************************)
(* Bounds of the model.                                                    *)
(***************************************************************************)
\* number of sample words the pre-initialization register contents are drawn from
NumSamples == 2

(***************************************************************************)
(* 32-bit words.                                                           *)
(***************************************************************************)
WordBits == 0..31

\* the word written as a binary literal, most significant digit first
Lit(s) == {Len(s) - j : j \in {k \in 1..Len(s) : s[k] = 1}}

\* sample word k: 0 is all zeros, 1 is all ones, k >= 2 has runs of k-1 equal bits
SampleWord(k) ==
    IF k = 0 THEN {}
    ELSE IF k = 1 THEN WordBits
    ELSE {b \in WordBits : (b \div (k - 1)) % 2 = 1}

Samples == {SampleWord(k) : k \in 0..(NumSamples - 1)}

(***************************************************************************)
(* Constants of the program (lines 27-51).                                 *)
(***************************************************************************)
RED_LED    == 10
YELLOW_LED == 11
GREEN_LED  == 13
BUTTON     == 26

RED_DURATION        == 3
RED_YELLOW_DURATION == 2
GREEN_DURATION      == 5
YELLOW_BLINK_COUNT  == 3
YELLOW_BLINK_DELAY  == 500000

GPFSEL1 == 1
GPFSEL2 == 2
GPSET0  == 7
GPCLR0  == 10
GPLEV0  == 13

\* mutant: a digit too many in the literal, bits 10 and 9
PIN10_MASK_Mut == Lit(<<1,1,0,0,0,0,0,0,0,0,0>>)
PIN10_MASK == Lit(<<1,0,0,0,0,0,0,0,0,0,0>>)
PIN11_MASK == Lit(<<1,0,0,0,0,0,0,0,0,0,0,0>>)
PIN13_MASK == Lit(<<1,0,0,0,0,0,0,0,0,0,0,0,0,0>>)
PIN26_MASK == Lit(<<1,0,0,0,0,0,0,0,0,0,0,0,0,0,0,0,0,0,0,0,0,0,0,0,0,0,0>>)

\* the literals of init_gpio (lines 97, 98, 103)
FSEL1_CLEAR == Lit(<<1,1,1,1,1,1,1,1,1,1,1,1,1,1,1,1,1,1,1,1,0,0,0,0,0,0,0,0,0,0,0,0>>)
\* mutant: the output-mode bits are set for pins 10, 11 and 12, not 13
FSEL1_OUTPUT_Mut == Lit(<<0,0,0,0,0,0,0,0,0,0,0,0,0,0,0,0,0,0,0,0,0,0,0,0,0,1,0,0,1,0,0,1>>)
FSEL1_OUTPUT == Lit(<<0,0,0,0,0,0,0,0,0,0,0,0,0,0,0,0,0,0,0,0,0,0,1,0,0,1,0,0,1,0,0,1>>)
FSEL2_CLEAR == Lit(<<1,1,1,1,1,1,1,1,1,1,1,0,0,0,1,1,1,1,1,1,1,1,1,1,1,1,1,1,1,1,1,1>>)

\* sleep(s) in microseconds; the arguments of the two usleep calls of the poll loop
Seconds(s) == s * 1000000
DEBOUNCE_DELAY == 300000
POLL_DELAY == 100000
\* the argument of wait_for_button_or_timeout at line 191, and of sleep at line 198
BUTTON_TIMEOUT == 5
CONTINUE_DURATION == 2

LEDS == {RED_LED, YELLOW_LED, GREEN_LED}

\* pc value of the terminated process
Exited == 0

VARIABLES
    pc,              \* source line of the next statement, or Exited
    mem_fd,          \* setup_gpio: result of open
    gpio_map,        \* setup_gpio: result of mmap ("none", "MAP_FAILED" or "mapped")
    gpio,            \* the global pointer: "null" until line 83, then "mapped"
    fsel,            \* contents of the function-select words GPFSEL1 and GPFSEL2
    pins,            \* output latch: the pins (other than the button) that are high
    btn,             \* environment: TRUE while the button is held down
    current_val,     \* init_gpio: local
    level,           \* button_pressed: local
    timeout_seconds, \* wait_for_button_or_timeout: parameter
    i,               \* loop counter of the loop being executed
    now,             \* microseconds slept so far
    status,          \* exit status of main, -1 while running
    stdout,          \* lines printed, by source line
    writes,          \* history: register writes in order
    reads,           \* history: register reads in order
    phaseLog,        \* history: phases entered, with the time of entry
    pre,             \* history: register contents before the program started
    pressed          \* history: the button has been down at some time

vars == <<pc, mem_fd, gpio_map, gpio, fsel, pins, btn, current_val, level,
          timeout_seconds, i, now, status, stdout, writes, reads, phaseLog, pre, pressed>>

(***************************************************************************)
(* The phase a source line belongs to (0: none).  A phase begins at its    *)
(* first statement; wait_for_button_or_timeout (lines 150-160) is only     *)
(* called from phase 4.                                                    *)
(***************************************************************************)
PhaseOf(l) ==
    IF l \in 167..171 THEN 1
    ELSE IF l \in 174..178 THEN 2
    ELSE IF l \in 181..185 THEN 3
    ELSE IF l \in 188..191 \/ l \in 150..160 THEN 4
    ELSE IF l \in 194..198 THEN 5
    ELSE IF l \in 201..209 THEN 6
    ELSE IF l \in 212..216 THEN 7
    ELSE 0

Phase == PhaseOf(pc)

(***************************************************************************)
(* Register block.  GPSET0 / GPCLR0: every 1 bit of the written word       *)
(* drives that pin high / low, 0 bits are no-ops.  GPLEV0 reads the pin    *)
(* levels; the button pin is pulled up and reads low while pressed.        *)
(***************************************************************************)
LevelWord == pins \cup (IF btn THEN {} ELSE {BUTTON})

ReadReg(reg) ==
    IF reg = GPLEV0 THEN LevelWord
    ELSE IF reg \in DOMAIN fsel THEN fsel[reg]
    ELSE {}

\* *(gpio + reg) = val
WriteReg(reg, val) ==
    /\ gpio = "mapped"
    /\ fsel' = IF reg \in DOMAIN fsel THEN [fsel EXCEPT ![reg] = val] ELSE fsel
    /\ pins' = IF reg = GPSET0 THEN pins \cup (val \ {BUTTON})
               ELSE IF reg = GPCLR0 THEN pins \ val
               ELSE pins
    /\ writes' = Append(writes, [reg |-> reg, val |-> val, line |-> pc,
                                 at |-> now, leds |-> pins' \cap LEDS])

\* ... = *(gpio + reg)
NoteRead(reg) ==
    /\ gpio = "mapped"
    /\ reads' = Append(reads, [reg |-> reg, val |-> ReadReg(reg), line |-> pc,
                               at |-> now])

Goto(l) ==
    /\ pc' = l
    /\ phaseLog' = IF PhaseOf(l) # 0 /\ PhaseOf(l) # PhaseOf(pc)
                   THEN Append(phaseLog, [phase |-> PhaseOf(l), at |-> now'])
                   ELSE phaseLog

Printf(l) == stdout' = Append(stdout, l)

Locals == <<mem_fd, gpio_map, current_val, level, timeout_seconds, i>>
Regs == <<fsel, pins>>

\* a statement that only prints
PrintStep(l, next) ==
    /\ pc = l
    /\ Printf(l)
    /\ UNCHANGED <<Locals, gpio, Regs, btn, now, status, writes, reads, pre, pressed>>
    /\ Goto(next)

\* a statement *(gpio + reg) = val
WriteStep(l, reg, val, next) ==
    /\ pc = l
    /\ WriteReg(reg, val)
    /\ UNCHANGED <<Locals, gpio, btn, now, status, stdout, reads, pre, pressed>>
    /\ Goto(next)

\* a statement sleep / usleep of us microseconds
SleepStep(l, us, next) ==
    /\ pc = l
    /\ now' = now + us
    /\ UNCHANGED <<Locals, gpio, Regs, btn, status, stdout, writes, reads, pre, pressed>>
    /\ Goto(next)

(***************************************************************************)
(* Initial state: the process is about to run main; the registers hold     *)
(* whatever was there before.                                              *)
(***************************************************************************)
Init ==
    /\ pc = 222
    /\ mem_fd = 0
    /\ gpio_map = "none"
    /\ gpio = "null"
    /\ fsel \in [{GPFSEL1, GPFSEL2} -> Samples]
    /\ pins \in {w \ {BUTTON} : w \in Samples}
    /\ btn \in BOOLEAN
    /\ current_val = {}
    /\ level = {}
    /\ timeout_seconds = 0
    /\ i = 0
    /\ now = 0
    /\ status = -1
    /\ stdout = <<>>
    /\ writes = <<>>
    /\ reads = <<>>
    /\ phaseLog = <<>>
    /\ pre = [fsel |-> fsel, pins |-> pins]
    /\ pressed = btn

\* a statement that changes nothing but the position (a call, a return, close)
JumpStep(l, next) ==
    /\ pc = l
    /\ UNCHANGED <<Locals, gpio, Regs, btn, now, status, stdout, writes, reads, pre, pressed>>
    /\ Goto(next)

(***************************************************************************)
(* setup_gpio (lines 56-85).  open and mmap succeed or fail as the system  *)
(* decides.  return -1 resumes main at line 227, return 0 at line 231      *)
(* (the test of line 226).                                                 *)
(***************************************************************************)
OpenResults == {-1, 3}
MmapResults == {"MAP_FAILED", "mapped"}

L61 ==
    /\ pc = 61
    /\ \E fd \in OpenResults : mem_fd' = fd
    /\ UNCHANGED <<gpio_map, current_val, level, timeout_seconds, i, gpio, Regs,
                   btn, now, status, stdout, writes, reads, pre, pressed>>
    /\ Goto(IF mem_fd' < 0 THEN 62 ELSE 67)

L62 == PrintStep(62, 63)

L63 == JumpStep(63, 227)

L67 ==
    /\ pc = 67
    /\ \E m \in MmapResults : gpio_map' = m
    /\ UNCHANGED <<mem_fd, current_val, level, timeout_seconds, i, gpio, Regs,
                   btn, now, status, stdout, writes, reads, pre, pressed>>
    /\ Goto(76)

L76 == JumpStep(76, 78)

L78 == JumpStep(78, IF gpio_map = "MAP_FAILED" THEN 79 ELSE 83)

L79 == PrintStep(79, 80)

\* mutant: the mmap failure path returns 0
L80_Mut == JumpStep(80, 231)
L80 == JumpStep(80, 227)

L83 ==
    /\ pc = 83
    /\ gpio' = gpio_map
    /\ UNCHANGED <<Locals, Regs, btn, now, status, stdout, writes, reads, pre, pressed>>
    /\ Goto(84)

L84 == JumpStep(84, 231)

setup_gpio == L61 \/ L62 \/ L63 \/ L67 \/ L76 \/ L78 \/ L79 \/ L80 \/ L83 \/ L84

(***************************************************************************)
(* init_gpio (lines 88-110).                                               *)
(***************************************************************************)
\* current_val = *(gpio + reg)
LoadStep(l, reg, next) ==
    /\ pc = l
    /\ NoteRead(reg)
    /\ current_val' = ReadReg(reg)
    /\ UNCHANGED <<mem_fd, gpio_map, level, timeout_seconds, i, gpio, Regs, btn,
                   now, status, stdout, writes, pre, pressed>>
    /\ Goto(next)

\* current_val = v
AssignStep(l, v, next) ==
    /\ pc = l
    /\ current_val' = v
    /\ UNCHANGED <<mem_fd, gpio_map, level, timeout_seconds, i, gpio, Regs, btn,
                   now, status, stdout, writes, reads, pre, pressed>>
    /\ Goto(next)

L93 == LoadStep(93, GPFSEL1, 97)
L97 == AssignStep(97, current_val \cap FSEL1_CLEAR, 98)
L98 == AssignStep(98, current_val \cup FSEL1_OUTPUT, 99)
L99 == WriteStep(99, GPFSEL1, current_val, 102)
L102 == LoadStep(102, GPFSEL2, 103)
L103 == AssignStep(103, current_val \cap FSEL2_CLEAR, 104)
L104 == WriteStep(104, GPFSEL2, current_val, 107)
L107 == WriteStep(107, GPCLR0, PIN13_MASK, 108)
L108 == WriteStep(108, GPCLR0, PIN11_MASK, 109)
\* mutant: the third clear of init_gpio repeats the mask of pin 11
L109_Mut == WriteStep(109, GPCLR0, PIN11_MASK, 233)
L109 == WriteStep(109, GPCLR0, PIN10_MASK, 233)

init_gpio == L93 \/ L97 \/ L98 \/ L99 \/ L102 \/ L103 \/ L104 \/ L107 \/ L108 \/ L109

(***************************************************************************)
(* button_pressed (lines 143-146) and wait_for_button_or_timeout (lines    *)
(* 149-160).  The initialisation i = 0 of the for statement is done by the *)
(* step that reaches line 151 from line 150; pc = 151 is the loop test.    *)
(***************************************************************************)
\* (level & PIN26_MASK) == 0
button_pressed(lev) == (lev \cap PIN26_MASK) = {}

L150 ==
    /\ pc = 150
    /\ Printf(150)
    /\ i' = 0
    /\ UNCHANGED <<mem_fd, gpio_map, current_val, level, timeout_seconds, gpio,
                   Regs, btn, now, status, writes, reads, pre, pressed>>
    /\ Goto(151)

\* mutant: the poll loop runs while i <= timeout_seconds * 10
L151_Mut == JumpStep(151, IF i <= timeout_seconds * 10 THEN 152 ELSE 159)
L151 == JumpStep(151, IF i < timeout_seconds * 10 THEN 152 ELSE 159)

\* mutant: the poll sees a latched press, one made at any earlier time
L152_Mut ==
    /\ pc = 152
    /\ NoteRead(GPLEV0)
    /\ level' = ReadReg(GPLEV0)
    /\ UNCHANGED <<mem_fd, gpio_map, current_val, timeout_seconds, i, gpio, Regs,
                   btn, now, status, stdout, writes, pre, pressed>>
    /\ Goto(IF button_pressed(level') \/ pressed THEN 153 ELSE 157)

L152 ==
    /\ pc = 152
    /\ NoteRead(GPLEV0)
    /\ level' = ReadReg(GPLEV0)
    /\ UNCHANGED <<mem_fd, gpio_map, current_val, timeout_seconds, i, gpio, Regs,
                   btn, now, status, stdout, writes, pre, pressed>>
    /\ Goto(IF button_pressed(level') THEN 153 ELSE 157)

L153 == PrintStep(153, 154)
\* mutant: a settle delay of 0.5 s
L154_Mut == SleepStep(154, 500000, 155)
L154 == SleepStep(154, DEBOUNCE_DELAY, 155)
\* mutant: after a press the sequence goes straight to the yellow phase
L155_Mut == JumpStep(155, 201)
L155 == JumpStep(155, 194)

\* mutant: the poll loop sleeps 0.2 s between polls
L157_Mut ==
    /\ pc = 157
    /\ now' = now + 2 * POLL_DELAY
    /\ i' = i + 1
    /\ UNCHANGED <<mem_fd, gpio_map, current_val, level, timeout_seconds, gpio,
                   Regs, btn, status, stdout, writes, reads, pre, pressed>>
    /\ Goto(151)

L157 ==
    /\ pc = 157
    /\ now' = now + POLL_DELAY
    /\ i' = i + 1
    /\ UNCHANGED <<mem_fd, gpio_map, current_val, level, timeout_seconds, gpio,
                   Regs, btn, status, stdout, writes, reads, pre, pressed>>
    /\ Goto(151)

L159 == PrintStep(159, 194)

wait_for_button_or_timeout == L150 \/ L151 \/ L152 \/ L153 \/ L154 \/ L155 \/ L157 \/ L159

(***************************************************************************)
(* traffic_light_sequence (lines 163-219).  The initialisation i = 0 of    *)
(* the for statement of line 204 is done by the step that reaches it from  *)
(* line 203; pc = 204 is the loop test, and the step of line 208 does i++. *)
(***************************************************************************)
L164 == PrintStep(164, 167)

\* Phase 1: RED ON (stop)
L167 == PrintStep(167, 168)
L168 == WriteStep(168, GPSET0, PIN10_MASK, 169)
L169 == WriteStep(169, GPCLR0, PIN11_MASK, 170)
L170 == WriteStep(170, GPCLR0, PIN13_MASK, 171)
L171 == SleepStep(171, Seconds(RED_DURATION), 174)

\* Phase 2: RED ON, YELLOW ON
L174 == PrintStep(174, 175)
L175 == WriteStep(175, GPSET0, PIN10_MASK, 176)
L176 == WriteStep(176, GPSET0, PIN11_MASK, 177)
\* mutant: phase 2 sets green instead of clearing it
L177_Mut == WriteStep(177, GPSET0, PIN13_MASK, 178)
L177 == WriteStep(177, GPCLR0, PIN13_MASK, 178)
L178 == SleepStep(178, Seconds(RED_YELLOW_DURATION), 181)

\* Phase 3: GREEN ON (go)
L181 == PrintStep(181, 182)
\* mutant: phase 3 sets green before clearing red and yellow
L182_Mut == WriteStep(182, GPSET0, PIN13_MASK, 183)
L182 == WriteStep(182, GPCLR0, PIN10_MASK, 183)
L183 == WriteStep(183, GPCLR0, PIN11_MASK, 184)
L184 == WriteStep(184, GPSET0, PIN13_MASK, 185)
\* mutant: the button-wait phase is left out
L185_Mut == SleepStep(185, Seconds(GREEN_DURATION), 194)
L185 == SleepStep(185, Seconds(GREEN_DURATION), 188)

\* Phase 4: PAUSE or BUTTON PRESS
L188 == WriteStep(188, GPCLR0, PIN10_MASK, 189)
L189 == WriteStep(189, GPCLR0, PIN11_MASK, 190)
\* mutant: phase 4 clears green
L190_Mut == WriteStep(190, GPCLR0, PIN13_MASK, 191)
L190 == WriteStep(190, GPSET0, PIN13_MASK, 191)

L191 ==
    /\ pc = 191
    /\ timeout_seconds' = BUTTON_TIMEOUT
    /\ UNCHANGED <<mem_fd, gpio_map, current_val, level, i, gpio, Regs, btn, now,
                   status, stdout, writes, reads, pre, pressed>>
    /\ Goto(150)

\* Phase 5: GREEN ON (continue go)
L194 == PrintStep(194, 195)
L195 == WriteStep(195, GPCLR0, PIN10_MASK, 196)
L196 == WriteStep(196, GPCLR0, PIN11_MASK, 197)
L197 == WriteStep(197, GPSET0, PIN13_MASK, 198)
\* mutant: phase 5 holds for GREEN_DURATION
L198_Mut == SleepStep(198, Seconds(GREEN_DURATION), 201)
L198 == SleepStep(198, Seconds(CONTINUE_DURATION), 201)

\* Phase 6: YELLOW BLINKING
L201 == PrintStep(201, 202)
L202 == WriteStep(202, GPCLR0, PIN10_MASK, 203)

L203 ==
    /\ pc = 203
    /\ WriteReg(GPCLR0, PIN13_MASK)
    /\ i' = 0
    /\ UNCHANGED <<mem_fd, gpio_map, current_val, level, timeout_seconds, gpio,
                   btn, now, status, stdout, reads, pre, pressed>>
    /\ Goto(204)

\* mutant: the blink loop runs once too often
L204_Mut == JumpStep(204, IF i <= YELLOW_BLINK_COUNT THEN 205 ELSE 212)
L204 == JumpStep(204, IF i < YELLOW_BLINK_COUNT THEN 205 ELSE 212)
L205 == WriteStep(205, GPSET0, PIN11_MASK, 206)
L206 == SleepStep(206, YELLOW_BLINK_DELAY, 207)
L207 == WriteStep(207, GPCLR0, PIN11_MASK, 208)

L208 ==
    /\ pc = 208
    /\ now' = now + YELLOW_BLINK_DELAY
    /\ i' = i + 1
    /\ UNCHANGED <<mem_fd, gpio_map, current_val, level, timeout_seconds, gpio,
                   Regs, btn, status, stdout, writes, reads, pre, pressed>>
    /\ Goto(204)

\* Phase 7: RED ON (stop)
L212 == PrintStep(212, 213)
L213 == WriteStep(213, GPSET0, PIN10_MASK, 214)
L214 == WriteStep(214, GPCLR0, PIN11_MASK, 215)
L215 == WriteStep(215, GPCLR0, PIN13_MASK, 216)
L216 == SleepStep(216, Seconds(RED_DURATION), 218)

L218 == PrintStep(218, 243)

traffic_light_sequence ==
    \/ L164
    \/ L167 \/ L168 \/ L169 \/ L170 \/ L171
    \/ L174 \/ L175 \/ L176 \/ L177 \/ L178
    \/ L181 \/ L182 \/ L183 \/ L184 \/ L185
    \/ L188 \/ L189 \/ L190 \/ L191
    \/ L194 \/ L195 \/ L196 \/ L197 \/ L198
    \/ L201 \/ L202 \/ L203 \/ L204 \/ L205 \/ L206 \/ L207 \/ L208
    \/ L212 \/ L213 \/ L214 \/ L215 \/ L216
    \/ L218

(***************************************************************************)
(* main (lines 221-250).                                                   *)
(***************************************************************************)
\* return code from main
ExitStep(l, code) ==
    /\ pc = l
    /\ status' = code
    /\ UNCHANGED <<Locals, gpio, Regs, btn, now, stdout, writes, reads, pre, pressed>>
    /\ Goto(Exited)

L222 == PrintStep(222, 223)
L223 == PrintStep(223, 226)
L226 == JumpStep(226, 61)
L227 == ExitStep(227, 1)
L231 == JumpStep(231, 93)
L233 == PrintStep(233, 234)
L234 == PrintStep(234, 235)
L235 == PrintStep(235, 236)
L236 == PrintStep(236, 237)
L237 == PrintStep(237, 240)
L240 == JumpStep(240, 164)
\* mutant: the final turn-off of red goes to register offset 1
L243_Mut == WriteStep(243, GPFSEL1, PIN10_MASK, 244)
L243 == WriteStep(243, GPCLR0, PIN10_MASK, 244)
L244 == WriteStep(244, GPCLR0, PIN11_MASK, 245)
\* mutant: the last write goes to the set register
L245_Mut == WriteStep(245, GPSET0, PIN13_MASK, 247)
L245 == WriteStep(245, GPCLR0, PIN13_MASK, 247)
L247 == PrintStep(247, 249)
L249 == ExitStep(249, 0)

main ==
    \/ L222 \/ L223 \/ L226 \/ L227 \/ L231
    \/ L233 \/ L234 \/ L235 \/ L236 \/ L237 \/ L240
    \/ L243 \/ L244 \/ L245 \/ L247 \/ L249

\* one statement of the program
Program == main \/ setup_gpio \/ init_gpio \/ traffic_light_sequence
              \/ wait_for_button_or_timeout

(***************************************************************************)
(* Environment: the button is pressed or released at any moment while the  *)
(* process runs.                                                           *)
(***************************************************************************)
Button ==
    /\ pc # Exited
    /\ btn' = ~btn
    /\ pressed' = (pressed \/ btn')
    /\ UNCHANGED <<pc, Locals, gpio, Regs, now, status, stdout, writes, reads,
                   phaseLog, pre>>

Next == Program \/ Button

Spec == Init /\ [][Next]_vars

\* the process is always scheduled again: every sleep returns
FairSpec == Spec /\ WF_vars(Program)

(***************************************************************************)
(* State functions used by the properties.                                 *)
(***************************************************************************)
Red    == RED_LED \in pins
Yellow == YELLOW_LED \in pins
Green  == GREEN_LED \in pins
LedsHigh == pins \cap LEDS

\* init_gpio has executed its last statement (line 109)
InitGpioDone == \E k \in 1..Len(writes) : writes[k].line = 109

\* the function-select field of a pin: 3 bits at (pin mod 10) * 3 of word pin div 10
FselWord(pin) == pin \div 10
FieldBits(pin) == {(pin % 10) * 3 + b : b \in 0..2}
FieldValue(w, pin) ==
    (IF (pin % 10) * 3 \in w THEN 1 ELSE 0)
    + (IF (pin % 10) * 3 + 1 \in w THEN 2 ELSE 0)
    + (IF (pin % 10) * 3 + 2 \in w THEN 4 ELSE 0)

\* the bits in which two words differ
Diff(a, b) == (a \ b) \cup (b \ a)

\* the source lines of the bodies of init_gpio and traffic_light_sequence
InitGpioLines == 89..110
SequenceLines == 164..219

(***************************************************************************)
(* C1.  init_gpio changes no bit of GPFSEL1 and GPFSEL2 other than the     *)
(* fields of pins 10, 11, 13 (GPFSEL1 bits 0-2, 3-5, 9-11) and of pin 26   *)
(* (GPFSEL2 bits 18-20): the field of pin 12 (GPFSEL1 bits 6-8) and        *)
(* GPFSEL1 bits 12-31 keep their pre-initialization values.                *)
(* Violated: line 97 clears bits 0-11 and line 98 sets bit 6, so pin 12's  *)
(* field becomes 001 whatever it was.                                      *)
(***************************************************************************)
C1_FrameEffect ==
    /\ Diff(fsel[GPFSEL1], pre.fsel[GPFSEL1])
          \subseteq (FieldBits(RED_LED) \cup FieldBits(YELLOW_LED) \cup FieldBits(GREEN_LED))
    /\ Diff(fsel[GPFSEL2], pre.fsel[GPFSEL2]) \subseteq FieldBits(BUTTON)

(***************************************************************************)
(* C2.  After init_gpio the function-select field of each output pin 10,   *)
(* 11, 13 equals 001 and the field of input pin 26 equals 000, for every   *)
(* pre-initialization content of GPFSEL1 and GPFSEL2.                      *)
(***************************************************************************)
C2_FieldsConfigured ==
    InitGpioDone =>
        /\ \A p \in LEDS : FieldValue(fsel[FselWord(p)], p) = 1
        /\ FieldValue(fsel[FselWord(BUTTON)], BUTTON) = 0

\* init_gpio has just returned, having started from words in which the fields
\* of the output pins were not 001 and the field of the button pin was not 000
C2_Witness ==
    /\ pc = 233
    /\ InitGpioDone
    /\ \A p \in LEDS : FieldValue(pre.fsel[FselWord(p)], p) = 7
    /\ FieldValue(pre.fsel[FselWord(BUTTON)], BUTTON) = 7

(***************************************************************************)
(* C3.  The documented LED combination of each phase.                      *)
(***************************************************************************)
Documented(ph) ==
    IF ph \in {1, 7} THEN {RED_LED}
    ELSE IF ph = 2 THEN {RED_LED, YELLOW_LED}
    ELSE IF ph \in {3, 4, 5} THEN {GREEN_LED}
    ELSE IF ph = 6 THEN {YELLOW_LED}
    ELSE {}

\* the statements of a phase that follow its initial LED writes
HoldLines == {171, 178, 185, 191, 198, 216} \cup (150..160) \cup (204..208)

\* C3 as stated: at every instant of a phase, counted from the phase's first
\* statement, the LEDs driven high are among the phase's documented combination.
\* Violated: phase 3 begins with red and yellow still high, phase 6 with green.
C3_Original == Phase \in 1..7 => LedsHigh \subseteq Documented(Phase)

\* C3, amended: once a phase's initial LED writes are done, and until the next
\* phase begins, the LEDs driven high are among the phase's documented
\* combination; while the initial writes are being executed they are among the
\* documented combinations of the phase and of the phase before it.
C3_AtMostDocumented ==
    Phase \in 1..7 =>
        IF pc \in HoldLines
        THEN LedsHigh \subseteq Documented(Phase)
        ELSE LedsHigh \subseteq (Documented(Phase) \cup Documented(Phase - 1))

\* phase 3 has begun and its writes are under way: yellow is still high
C3_Witness == pc = 183 /\ Phase = 3 /\ LedsHigh = {YELLOW_LED}

(***************************************************************************)
(* C4.  When open or mmap fails in setup_gpio the program accesses no      *)
(* register, never enters init_gpio or traffic_light_sequence, and main    *)
(* returns 1.                                                              *)
(***************************************************************************)
MappingFailed == mem_fd < 0 \/ gpio_map = "MAP_FAILED"

C4_FailureNoAccess ==
    MappingFailed =>
        /\ writes = <<>>
        /\ reads = <<>>
        /\ fsel = pre.fsel /\ pins = pre.pins
        /\ pc \notin (InitGpioLines \cup SequenceLines)
        /\ pc \notin 231..249
        /\ pc = Exited => status = 1

\* mmap failed and main has returned
C4_Witness == gpio_map = "MAP_FAILED" /\ pc = Exited /\ status = 1

(***************************************************************************)
(* C5.  With a successful mapping the phases 1..7 are each entered exactly *)
(* once, in increasing order, whatever the button does: the phases entered *)
(* so far are 1, 2, ..., the current one, and all seven by the time the    *)
(* sequence has returned.                                                  *)
(***************************************************************************)
C5_PhasesInOrder ==
    /\ \A k \in 1..Len(phaseLog) : phaseLog[k].phase = k
    /\ Phase # 0 => Phase = Len(phaseLog)
    /\ Len(phaseLog) <= 7
    /\ (gpio = "mapped" /\ pc \in ({Exited} \cup (243..249))) => Len(phaseLog) = 7

\* a run in which the button was read pressed has finished
C5_Witness ==
    /\ pc = Exited /\ status = 0
    /\ Len(phaseLog) = 7
    /\ button_pressed(level)

(***************************************************************************)
(* Durations, read from the histories.  phaseLog[k].at is the time at      *)
(* which phase k began.  Phase 4 ends when wait_for_button_or_timeout      *)
(* returns to line 194, where phase 5 begins.                              *)
(***************************************************************************)
Phase4Over == Len(phaseLog) >= 5
Phase4Duration == phaseLog[5].at - phaseLog[4].at

\* the reads of the level register, in order
LevelReads == SelectSeq(reads, LAMBDA r : r.reg = GPLEV0)

\* the last poll of the button-wait phase read the button pressed
PressRead == Phase4Over /\ button_pressed(level)

\* 0-based index of the last poll, and the time spent in phase 4 up to it
LastPoll == Len(LevelReads) - 1
ElapsedAtLastPoll == LevelReads[Len(LevelReads)].at - phaseLog[4].at

(***************************************************************************)
(* C6 as stated: the button-wait phase lasts between 0 and 5 seconds       *)
(* inclusive, poll sleeps and settle delay counted, whatever the button    *)
(* does.  Violated: a press first read at poll 48 or 49 gives 4.8 s or     *)
(* 4.9 s of polling plus the 0.3 s settle delay.                           *)
(***************************************************************************)
C6_Original ==
    Phase4Over => Phase4Duration >= 0 /\ Phase4Duration <= Seconds(5)

\* C6, amended: the button-wait phase lasts between 0 and 5.2 seconds inclusive
\* (at most 4.9 s of polling before a press is read, plus the 0.3 s settle
\* delay), whatever the button does.
C6_WaitBounded ==
    Phase4Over => Phase4Duration >= 0 /\ Phase4Duration <= 5200000

\* the press was first read at the last poll (index 49): the phase took 5.2 s
C6_Witness == PressRead /\ LastPoll = 49 /\ Phase4Duration = 5200000

(***************************************************************************)
(* C7 as stated: if a poll of the button-wait phase reads the button       *)
(* pressed, the phase lasts exactly the time elapsed up to that poll plus  *)
(* the 0.3 s settle delay, and that is shorter than 5 s, for each poll     *)
(* index 0..49.  Violated: for poll 47 the duration is 5.0 s, for polls 48 *)
(* and 49 it is 5.1 s and 5.2 s.                                           *)
(***************************************************************************)
C7_Original ==
    PressRead =>
        /\ LastPoll \in 0..49
        /\ Phase4Duration = ElapsedAtLastPoll + 300000
        /\ Phase4Duration < Seconds(5)

\* C7, amended: if a poll of the button-wait phase reads the button pressed,
\* the phase lasts exactly the time elapsed up to that poll (0.1 s per earlier
\* poll) plus the 0.3 s settle delay; that is shorter than 5 s exactly when the
\* poll index is in 0..46.
C7_PressShortens ==
    PressRead =>
        /\ LastPoll \in 0..49
        /\ ElapsedAtLastPoll = LastPoll * 100000
        /\ Phase4Duration = ElapsedAtLastPoll + 300000
        /\ (Phase4Duration < Seconds(5)) <=> (LastPoll <= 46)

\* a press read at poll 20, after 2.0 s of polling
C7_Witness == PressRead /\ LastPoll = 20 /\ Phase4Duration = 2300000

(***************************************************************************)
(* C8.  The time from the first write of phase 1 to the end of phase 7,    *)
(* less the time spent in wait_for_button_or_timeout, is exactly 18 s,     *)
(* whatever the button does.                                               *)
(***************************************************************************)
SequenceOver == gpio = "mapped" /\ pc \in ({218, Exited} \cup (243..249))

C8_FixedHolds ==
    SequenceOver =>
        (now - phaseLog[1].at) - Phase4Duration
            = Seconds(3 + 2 + 5 + 2 + 3) + 3 * 1000000

\* phase 7 has just ended in a run whose button wait was cut short
C8_Witness == pc = 218 /\ PressRead /\ Phase4Duration = 300000 /\ now = 18300000

(***************************************************************************)
(* The changes of the yellow output made during phase 6, read from the     *)
(* history of writes: write k changes yellow when the LED state it leaves  *)
(* differs in yellow from the state the write before it left.              *)
(***************************************************************************)
YellowAfter(k) == YELLOW_LED \in writes[k].leds
YellowBefore(k) == IF k = 1 THEN YELLOW_LED \in pre.pins ELSE YellowAfter(k - 1)

YellowChanges6 ==
    SelectSeq([k \in 1..Len(writes) |-> k],
              LAMBDA k : PhaseOf(writes[k].line) = 6 /\ YellowAfter(k) # YellowBefore(k))

Phase6Over == Len(phaseLog) >= 7

\* the yellow changes of phase 6: off->on first, alternating, 0.5 s apart, at
\* most six, exactly six once the phase is over, and yellow low at its end
YellowBlinks ==
    LET yc == YellowChanges6
    IN  /\ \A j \in 1..Len(yc) :
              /\ YellowAfter(yc[j]) = (j % 2 = 1)
              /\ j > 1 => writes[yc[j]].at - writes[yc[j - 1]].at = 500000
        /\ Len(yc) <= 6
        /\ Phase6Over => Len(yc) = 6
        /\ pc = 212 => ~Yellow

(***************************************************************************)
(* C9 as stated: during phase 6 yellow changes value exactly 6 times,      *)
(* alternating from off->on, 0.5 s apart, red and green stay low           *)
(* throughout, and the phase ends with yellow low.  Violated: phase 6      *)
(* begins with green still high from phase 5; green goes low at line 203.  *)
(***************************************************************************)
C9_Original ==
    /\ YellowBlinks
    /\ Phase = 6 => ~Red /\ ~Green

\* C9, amended: during phase 6 yellow changes value exactly 6 times, alternating
\* from off->on, 0.5 s apart, and the phase ends with yellow low; red stays low
\* throughout, and green stays low from the phase's second write (line 203) on,
\* that is, throughout the blinking.
C9_YellowBlinks ==
    /\ YellowBlinks
    /\ Phase = 6 => ~Red
    /\ (Phase = 6 /\ pc \in 204..208) => ~Green

\* phase 6 has just ended after its six changes of yellow
C9_Witness == pc = 212 /\ Len(YellowChanges6) = 6 /\ ~Yellow /\ i = 3

(***************************************************************************)
(* C10.  Every run with a successful mapping terminates, whatever the      *)
(* button does, with red, yellow and green low and exit status 0.          *)
(***************************************************************************)
Terminated == pc = Exited

C10_Terminates ==
    /\ [](gpio = "mapped" => <>(Terminated /\ status = 0 /\ LedsHigh = {}))
    /\ []((Terminated /\ gpio = "mapped") => (status = 0 /\ LedsHigh = {}))

\* a run has ended in which no poll read the button pressed
C10_Witness ==
    /\ Terminated /\ status = 0 /\ LedsHigh = {}
    /\ Len(LevelReads) = 50 /\ ~button_pressed(level)

(***************************************************************************)
(* The register writes of a run, as (register, value) pairs, and the       *)
(* sequence the program text prescribes for them from the                  *)
(* pre-initialization words alone: init_gpio (lines 99-109), the phases    *)
(* 1-5 (lines 168-197), phase 6 (lines 202-207, three blink cycles),       *)
(* phase 7 (lines 213-215) and the final turn-off (lines 243-245).         *)
(***************************************************************************)
W(reg, val) == <<reg, val>>

WritesSoFar == [k \in 1..Len(writes) |-> W(writes[k].reg, writes[k].val)]

ExpectedWrites ==
    <<W(GPFSEL1, (pre.fsel[GPFSEL1] \cap FSEL1_CLEAR) \cup FSEL1_OUTPUT),
      W(GPFSEL2, pre.fsel[GPFSEL2] \cap FSEL2_CLEAR),
      W(GPCLR0, PIN13_MASK), W(GPCLR0, PIN11_MASK), W(GPCLR0, PIN10_MASK)>>
    \o <<W(GPSET0, PIN10_MASK), W(GPCLR0, PIN11_MASK), W(GPCLR0, PIN13_MASK)>>
    \o <<W(GPSET0, PIN10_MASK), W(GPSET0, PIN11_MASK), W(GPCLR0, PIN13_MASK)>>
    \o <<W(GPCLR0, PIN10_MASK), W(GPCLR0, PIN11_MASK), W(GPSET0, PIN13_MASK)>>
    \o <<W(GPCLR0, PIN10_MASK), W(GPCLR0, PIN11_MASK), W(GPSET0, PIN13_MASK)>>
    \o <<W(GPCLR0, PIN10_MASK), W(GPCLR0, PIN11_MASK), W(GPSET0, PIN13_MASK)>>
    \o <<W(GPCLR0, PIN10_MASK), W(GPCLR0, PIN13_MASK)>>
    \o <<W(GPSET0, PIN11_MASK), W(GPCLR0, PIN11_MASK)>>
    \o <<W(GPSET0, PIN11_MASK), W(GPCLR0, PIN11_MASK)>>
    \o <<W(GPSET0, PIN11_MASK), W(GPCLR0, PIN11_MASK)>>
    \o <<W(GPSET0, PIN10_MASK), W(GPCLR0, PIN11_MASK), W(GPCLR0, PIN13_MASK)>>
    \o <<W(GPCLR0, PIN10_MASK), W(GPCLR0, PIN11_MASK), W(GPCLR0, PIN13_MASK)>>

\* a run with a successful mapping has ended
RunOver == Terminated /\ gpio = "mapped"

(***************************************************************************)
(* C11.  The button influences only how long phase 4 lasts: two runs with  *)
(* a successful mapping and the same initial register contents make the    *)
(* same ordered register writes (register, value) and have the same LED    *)
(* state at the start of phases 5, 6 and 7 and at exit, whatever their     *)
(* button inputs.  Stated on one run: the writes made so far are a prefix  *)
(* of a sequence fixed by the initial register contents, all of it at      *)
(* exit, and the LED states at those four points are fixed sets; neither   *)
(* mentions the button, so any two runs agree.                             *)
(***************************************************************************)
C11_ButtonOnlyTiming ==
    /\ Len(writes) <= Len(ExpectedWrites)
    /\ WritesSoFar = SubSeq(ExpectedWrites, 1, Len(writes))
    /\ RunOver => Len(writes) = Len(ExpectedWrites)
    /\ pc = 194 => LedsHigh = {GREEN_LED}
    /\ pc = 201 => LedsHigh = {GREEN_LED}
    /\ pc = 212 => LedsHigh = {}
    /\ RunOver => LedsHigh = {}

\* a run has ended in which the button was read pressed at poll 7, with all
\* 34 writes made
C11_Witness ==
    /\ RunOver /\ PressRead /\ LastPoll = 7
    /\ Len(writes) = 34

(***************************************************************************)
(* C12.  Pin directions are configured exactly once at startup: with a     *)
(* successful mapping GPFSEL1 and GPFSEL2 are each written exactly once,   *)
(* both before the first write to the set or clear register, and never     *)
(* during traffic_light_sequence or the final turn-off.                    *)
(***************************************************************************)
WritesTo(reg) == {k \in 1..Len(writes) : writes[k].reg = reg}

C12_FselOnceAtStartup ==
    /\ \A reg \in {GPFSEL1, GPFSEL2} :
          /\ Cardinality(WritesTo(reg)) <= 1
          /\ InitGpioDone => Cardinality(WritesTo(reg)) = 1
          /\ \A k \in WritesTo(reg) :
                /\ writes[k].line \in InitGpioLines
                /\ \A j \in WritesTo(GPSET0) \cup WritesTo(GPCLR0) : k < j
    /\ \A k \in 1..Len(writes) :
          writes[k].line \in (SequenceLines \cup (243..245))
              => writes[k].reg \notin {GPFSEL1, GPFSEL2}

\* the run is over: two function-select writes, then 32 set / clear writes
C12_Witness ==
    /\ RunOver
    /\ WritesTo(GPFSEL1) = {1} /\ WritesTo(GPFSEL2) = {2}
    /\ Cardinality(WritesTo(GPSET0) \cup WritesTo(GPCLR0)) = 32

(***************************************************************************)
(* C13.  Throughout each phase's hold, from the phase's last LED write     *)
(* until the next phase's first write, the LED state is exactly the        *)
(* documented combination: red in phases 1 and 7, red and yellow in phase  *)
(* 2, green in phases 3, 4 and 5.  Green stays high, and red and yellow    *)
(* low, from the last write of phase 3 until the first write of phase 6,   *)
(* and the writes of phases 4 and 5 change nothing.                        *)
(* A position pc is in the hold of a phase when the phase's last LED write *)
(* has been executed and the next write has not.                           *)
(***************************************************************************)
HoldOf(l) ==
    IF l \in {171, 174, 175} THEN 1
    ELSE IF l \in {178, 181, 182} THEN 2
    ELSE IF l \in {185, 188} THEN 3
    ELSE IF l \in {191, 194, 195} \cup (150..160) THEN 4
    ELSE IF l \in {198, 201, 202} THEN 5
    ELSE IF l \in {216, 218, 243} THEN 7
    ELSE 0

\* from the last write of phase 3 (done at pc = 185) to the first of phase 6 (at pc = 202)
GreenSpan == (185..202) \cup (150..160)

LedsAfter(k) == writes[k].leds
LedsBefore(k) == IF k = 1 THEN pre.pins \cap LEDS ELSE LedsAfter(k - 1)

C13_HoldExact ==
    /\ HoldOf(pc) # 0 => LedsHigh = Documented(HoldOf(pc))
    /\ pc \in GreenSpan => Green /\ ~Red /\ ~Yellow
    /\ \A k \in 1..Len(writes) :
          PhaseOf(writes[k].line) \in {4, 5} => LedsAfter(k) = LedsBefore(k)

\* the poll loop of phase 4 is sleeping between polls 30 and 31 with green alone
\* high, the three writes of phase 4 having been made
C13_Witness ==
    /\ pc = 157 /\ i = 30
    /\ LedsHigh = {GREEN_LED}
    /\ Len(writes) = 17

(***************************************************************************)
(* C14.  wait_for_button_or_timeout(5) polls the button every 0.1 s and    *)
(* stops at the first poll that reads pressed.  If no poll reads pressed   *)
(* it makes exactly 50 polls, returns after exactly 5.0 s with no settle   *)
(* delay and reports timeout (the print of line 159); if poll k is the     *)
(* first to read pressed it makes exactly k+1 polls and reports pressed    *)
(* (the print of line 153); exactly one outcome is reported per call.      *)
(***************************************************************************)
Printed(l) == Cardinality({k \in 1..Len(stdout) : stdout[k] = l})

\* no poll so far has read the button pressed
NoPollPressed ==
    LET lr == LevelReads
    IN  \A j \in 1..Len(lr) : ~button_pressed(lr[j].val)

C14_PollLoop ==
    LET lr == LevelReads
        n == Len(lr)
        reported == Printed(153) + Printed(159)
    IN  /\ n <= 50
        /\ \A j \in 1..n :
              /\ lr[j].line = 152
              /\ lr[j].at = phaseLog[4].at + (j - 1) * 100000
              /\ j < n => ~button_pressed(lr[j].val)
        /\ reported <= 1
        /\ Phase4Over =>
              /\ n >= 1
              /\ reported = 1
              /\ IF NoPollPressed
                 THEN /\ n = 50
                      /\ Phase4Duration = Seconds(5)
                      /\ Printed(159) = 1
                 ELSE /\ button_pressed(lr[n].val)
                      /\ Printed(153) = 1

\* the call has returned after 50 polls that all read the button up, although
\* the button was down at some time
C14_Witness ==
    /\ pc = 194 /\ NoPollPressed /\ pressed
    /\ Len(LevelReads) = 50 /\ Printed(159) = 1

(***************************************************************************)
(* C15.  Whatever the three output latches held before the program         *)
(* started, red, yellow and green are all low when init_gpio returns, and  *)
(* the first output driven high afterwards is red.                         *)
(***************************************************************************)
C15_LowAfterInit ==
    /\ pc = 233 => LedsHigh = {}
    /\ (InitGpioDone /\ WritesTo(GPSET0) = {}) => LedsHigh = {}
    /\ \A k \in WritesTo(GPSET0) :
          (\A j \in WritesTo(GPSET0) : k <= j)
              => /\ writes[k].val = PIN10_MASK
                 /\ LedsBefore(k) = {}
                 /\ LedsAfter(k) = {RED_LED}

\* all three latches were high before the program started; the first write to
\* the set register has just been made
C15_Witness ==
    /\ LEDS \subseteq pre.pins
    /\ pc = 169 /\ Cardinality(WritesTo(GPSET0)) = 1
    /\ LedsHigh = {RED_LED}

(***************************************************************************)
(* C16.  From the return of init_gpio until exit, the states between the   *)
(* single register writes of a phase change included, green is never high  *)
(* together with red and never high together with yellow.                  *)
(***************************************************************************)
C16_GreenExclusive ==
    InitGpioDone => /\ ~(Green /\ Red)
                    /\ ~(Green /\ Yellow)

\* in the middle of the change from phase 2 to phase 3: red is off, yellow is
\* still on, green not yet
C16_Witness == pc = 183 /\ Yellow /\ ~Red /\ ~Green /\ LEDS \subseteq pre.pins

(***************************************************************************)
(* C17.  Every word written to the set or the clear register has exactly   *)
(* one bit set, bit 10, 11 or 13; so no latch other than those of pins 10, *)
(* 11 and 13 is changed by the program, each write changes at most one     *)
(* LED, and the level register is never written.                           *)
(***************************************************************************)
C17_SingleLedBit ==
    /\ \A k \in 1..Len(writes) :
          /\ writes[k].reg \in {GPFSEL1, GPFSEL2, GPSET0, GPCLR0}
          /\ writes[k].reg # GPLEV0
          /\ writes[k].reg \in {GPSET0, GPCLR0} =>
                /\ Cardinality(writes[k].val) = 1
                /\ writes[k].val \subseteq LEDS
                /\ Cardinality(Diff(LedsAfter(k), LedsBefore(k))) <= 1
    /\ pins \ LEDS = pre.pins \ LEDS

\* the run is over, all 32 set / clear writes made, and the other latches,
\* which were high before the program started, are still high
C17_Witness ==
    /\ RunOver
    /\ Cardinality(WritesTo(GPSET0) \cup WritesTo(GPCLR0)) = 32
    /\ pins = (WordBits \ LEDS) \ {BUTTON}

(***************************************************************************)
(* The times of the register writes of a run in which no poll reads the    *)
(* button pressed: init_gpio and phase 1 at 0, then the holds of 3 s, 2 s, *)
(* 5 s, the 50 poll sleeps of 0.1 s, 2 s, the six blink delays of 0.5 s    *)
(* and 3 s (lines 171-216).                                                *)
(***************************************************************************)
Thrice(t) == <<t, t, t>>

NeverPressedTimes ==
    <<0, 0>> \o Thrice(0)
    \o Thrice(0)
    \o Thrice(Seconds(3))
    \o Thrice(Seconds(3 + 2))
    \o Thrice(Seconds(3 + 2 + 5))
    \o Thrice(Seconds(3 + 2 + 5) + 50 * 100000)
    \o <<Seconds(17), Seconds(17)>>
    \o <<Seconds(17), Seconds(17) + 500000>>
    \o <<Seconds(18), Seconds(18) + 500000>>
    \o <<Seconds(19), Seconds(19) + 500000>>
    \o Thrice(Seconds(20))
    \o Thrice(Seconds(23))

(***************************************************************************)
(* C18.  The level register is read only inside the poll loop of phase 4.  *)
(* A press that begins and ends outside phase 4, or between two polls, is  *)
(* not observed: a run in which no poll reads the button pressed makes the *)
(* register writes, at the times, of the run in which the button is never  *)
(* pressed, whether or not the button was down at some time.               *)
(***************************************************************************)
C18_PressUnobserved ==
    LET lr == LevelReads
    IN  /\ \A j \in 1..Len(lr) : lr[j].line = 152 /\ PhaseOf(lr[j].line) = 4
        /\ Len(phaseLog) < 4 => Len(lr) = 0
        /\ (Phase # 4 /\ ~Phase4Over) => Len(lr) = 0
        /\ NoPollPressed =>
              /\ WritesSoFar = SubSeq(ExpectedWrites, 1, Len(writes))
              /\ \A k \in 1..Len(writes) : writes[k].at = NeverPressedTimes[k]
              /\ Printed(153) = 0
              /\ Phase4Over => Phase4Duration = Seconds(5)
              /\ RunOver => now = Seconds(23) /\ Len(writes) = 34

\* a run is over in which the button was down at some time and up again, and
\* no poll read it pressed
C18_Witness ==
    /\ RunOver /\ pressed /\ ~btn
    /\ NoPollPressed /\ Len(LevelReads) = 50
    /\ now = Seconds(23)

====
